---- MODULE Spec2Model ----
(***************************************************************************)
(* Model of bot.py, the Dota2 tournament bot.                              *)
(*                                                                         *)
(* State: the MongoDB collections tournaments_col and players_col, and     *)
(* one frame per running command handler (a coroutine).  A handler yields  *)
(* at every awaited storage call, so one step of a handler is one storage  *)
(* call together with the local code that follows it up to the next        *)
(* storage call.  Messages sent with ctx.send are recorded in reply (the   *)
(* awaited send has no effect on the stored state).                        *)
(*                                                                         *)
(* Collections are sequences of documents in insertion order: find_one     *)
(* and update_one act on the first document that matches.                  *)
(*                                                                         *)
(* Inputs: team names are tokens without '.' or '$' (the update path       *)
(* "teams.<name>" then names one key of the teams map); make_match_id is   *)
(* taken to return an id not returned before: an id is a random string     *)
(* that is only ever compared for equality, and the model names it when    *)
(* its match is appended to the tournament, by the position the match      *)
(* takes (until then the match carries the id Unnamed).  The display name  *)
(* of a player document is not modelled.                                   *)
(***************************************************************************)
EXTENDS Integers, Sequences, FiniteSets, TLC

VARIABLES
    tournaments_col,  \* sequence of tournament documents
    players_col,      \* sequence of player documents
    frame,            \* frame[p]: the locals of handler p
    reply,            \* reply[p]: the last message handler p sent
    reports,          \* history: the result reports accepted so far
    env,              \* what users still send: commands left per command, rosters named
    crm_in,           \* create_round_matches checked alone: its argument
    crm_out,          \* create_round_matches checked alone: its result
    queue,            \* the lobby queue: display names in the order they joined
    current_queue_message,  \* the message that shows the queue, or None
    button,           \* button[h]: the locals of lobby handler h
    clicks            \* what users still send to the lobby, per button and command

vars == <<tournaments_col, players_col, frame, reply, reports,
          env, crm_in, crm_out, queue, current_queue_message, button, clicks>>

-----------------------------------------------------------------------------
(* Bounds and input sets *)

NumHandlers == 2
MaxCreate == 2
MaxAddTeam == 3
MaxRestart == 2
MaxReport == 2
MaxOverlap == 1
MaxPairInput == 4
NumClickers == 2
MaxUsers == 11
MaxJoin == 12
MaxLeave == 1
MaxShow == 1
MaxStartQueue == 1

Handlers == 1..NumHandlers

\* the coroutines of the lobby buttons and commands that may be live at once
Clickers == 1..NumClickers

\* display names of the users that click
Users == 1..MaxUsers
TourneyNames == {"T"}
TeamNames == {"A", "B", "C"}
FewTeams == {"A", "B"}
PlayerIds == {1, 2}
Rosters == {<<>>, <<1>>, <<2>>, <<1, 2>>}
FewRosters == {<<>>, <<1>>}

K_FACTOR == 32

\* line 345: the queue length at which the lobby is announced
QueueCap == 10
DefaultElo == 1200

None == "<None>"
Unnamed == 0

-----------------------------------------------------------------------------
(* Sequence helpers *)

Range(s) == {s[i] : i \in 1..Len(s)}

RECURSIVE SumSeq(_)
SumSeq(s) == IF s = <<>> THEN 0 ELSE Head(s) + SumSeq(Tail(s))

\* index of the first element of s satisfying Test, 0 if none
FirstIndex(s, Test(_)) ==
    IF \E i \in 1..Len(s) : Test(s[i])
    THEN CHOOSE i \in 1..Len(s) : Test(s[i]) /\ \A j \in 1..(i-1) : ~Test(s[j])
    ELSE 0

\* all orderings of the elements of the sequence s
Shuffles(s) ==
    {[i \in 1..Len(s) |-> s[f[i]]] :
        f \in {g \in [1..Len(s) -> 1..Len(s)] :
                  \A i, j \in 1..Len(s) : i # j => g[i] # g[j]}}

-----------------------------------------------------------------------------
(* Documents *)

\* the document create_tournament_doc inserts
NewTournamentDoc(name) ==
    [name |-> name, teams |-> <<>>, status |-> "setup",
     pending_upper |-> <<>>, pending_lower |-> <<>>, matches |-> <<>>,
     upper_rounds |-> <<>>, lower_rounds |-> <<>>, champion |-> None]

\* what find_one returns when no tournament matches
NoTournament == NewTournamentDoc(None)

\* the document ensure_player_doc inserts
NewPlayerDoc(pid) == [discord_id |-> pid, wins |-> 0, losses |-> 0, elo |-> DefaultElo]

PairedMatch(id, a, b, bracket) ==
    [id |-> id, teamA |-> a, teamB |-> b, winner |-> None, bracket |-> bracket, bye |-> FALSE]

\* a variant of the bye of lines 163, 223 and 239 that is left without a winner
ByeMatchUnresolved(id, a, bracket) ==
    [id |-> id, teamA |-> a, teamB |-> None, winner |-> None, bracket |-> bracket, bye |-> TRUE]

ByeMatch(id, a, bracket) ==
    [id |-> id, teamA |-> a, teamB |-> None, winner |-> a, bracket |-> bracket, bye |-> TRUE]

NoMatch == [id |-> Unnamed, teamA |-> None, teamB |-> None, winner |-> None, bracket |-> None, bye |-> FALSE]

-----------------------------------------------------------------------------
(* Storage calls *)

TIdx(name) == FirstIndex(tournaments_col, LAMBDA d : d.name = name)

get_tournament(name) ==
    IF TIdx(name) = 0 THEN NoTournament ELSE tournaments_col[TIdx(name)]

\* a variant of the checks "if not tourney" that takes every tournament as found
FoundAlways(doc) == TRUE

Found(doc) == doc.name # None

\* tournaments_col.update_one({"name": name}, {"$set": ...}) leaving doc2
update_tournament(name, doc2) ==
    IF TIdx(name) = 0 THEN tournaments_col
    ELSE [tournaments_col EXCEPT ![TIdx(name)] = doc2]

\* the id make_match_id gave the match appended next to the tournament
make_match_id(name) == Len(get_tournament(name).matches) + 1

append_match_to_tourney(name, m) ==
    LET d == get_tournament(name)
    IN update_tournament(name,
          [d EXCEPT !.matches = Append(@, [m EXCEPT !.id = make_match_id(name)])])

push_round(name, bracket, round_match_ids) ==
    LET d == get_tournament(name)
    IN IF bracket = "upper"
       THEN update_tournament(name, [d EXCEPT !.upper_rounds = Append(@, round_match_ids)])
       ELSE update_tournament(name, [d EXCEPT !.lower_rounds = Append(@, round_match_ids)])

MatchIdx(doc, match_id) == FirstIndex(doc.matches, LAMBDA m : m.id = match_id)

find_match(doc, match_id) ==
    IF MatchIdx(doc, match_id) = 0 THEN NoMatch ELSE doc.matches[MatchIdx(doc, match_id)]

\* update_one({"name": name, "matches.id": id}, {"$set": {"matches.$.winner": w}}):
\* the first document of that name holding a match of that id, and in it the
\* first such match
SetWinnerIdx(name, match_id) ==
    FirstIndex(tournaments_col,
               LAMBDA d : d.name = name /\ MatchIdx(d, match_id) # 0)

set_match_winner(name, match_id, w) ==
    LET k == SetWinnerIdx(name, match_id)
    IN IF k = 0 THEN tournaments_col
       ELSE [tournaments_col EXCEPT
                ![k].matches[MatchIdx(tournaments_col[k], match_id)].winner = w]

PIdx(pid) == FirstIndex(players_col, LAMBDA d : d.discord_id = pid)

PlayerExists(pid) == PIdx(pid) # 0

get_player(pid) == players_col[PIdx(pid)]

\* players_col.update_one({"discord_id": pid}, {"$inc": {field: 1}, "$set": {"elo": e}})
record_result(pid, won, new_elo) ==
    IF PIdx(pid) = 0 THEN players_col
    ELSE IF won
         THEN [players_col EXCEPT ![PIdx(pid)].wins = @ + 1, ![PIdx(pid)].elo = new_elo]
         ELSE [players_col EXCEPT ![PIdx(pid)].losses = @ + 1, ![PIdx(pid)].elo = new_elo]

-----------------------------------------------------------------------------
(* Rating *)

\* round(K_FACTOR * (1 - expected_win)) is at least k exactly when
\* 2 * (lose_avg - win_avg) >= EloSteps[k], where
\* expected_win = 1 / (1 + 10 ** ((lose_avg - win_avg) / 400))
EloSteps ==
    <<-1439, -1046, -857, -728, -628, -546, -474, -411, -353, -299, -248,
      -200, -154, -109, -65, -21, 22, 66, 110, 155, 201, 249, 300, 354, 412,
      475, 547, 629, 729, 858, 1047, 1440>>

\* twice the average elo of the players ids, as read into the dict players
\* (rosters hold at most two players, so this is an integer)
TwiceAvg(players, ids) ==
    (2 * SumSeq([i \in 1..Len(ids) |-> players[ids[i]]])) \div Len(ids)

\* round(old + k * (1 - expected_win)) - old
WinGain(players, winner_ids, loser_ids) ==
    LET d2 == TwiceAvg(players, loser_ids) - TwiceAvg(players, winner_ids)
    IN Cardinality({k \in 1..K_FACTOR : d2 >= EloSteps[k]})

\* a variant of lines 113-121 that computes the losers' loss from the ratings
\* the winners have after their gain
EloUpdatesFedBack(players, winner_ids, loser_ids) ==
    LET g == WinGain(players, winner_ids, loser_ids)
        after == [pid \in DOMAIN players |->
                     IF pid \in Range(winner_ids) THEN players[pid] + g ELSE players[pid]]
        g2 == WinGain(after, winner_ids, loser_ids)
    IN [i \in 1..Len(winner_ids) |-> <<winner_ids[i], players[winner_ids[i]] + g>>]
       \o [i \in 1..Len(loser_ids) |-> <<loser_ids[i], players[loser_ids[i]] - g2>>]

\* the list updates of adjust_elo_for_match: <<pid, new elo>>
EloUpdates(players, winner_ids, loser_ids) ==
    LET g == WinGain(players, winner_ids, loser_ids)
    IN [i \in 1..Len(winner_ids) |-> <<winner_ids[i], players[winner_ids[i]] + g>>]
       \o [i \in 1..Len(loser_ids) |-> <<loser_ids[i], players[loser_ids[i]] - g>>]

\* the divisions by len(winner_ids) and len(loser_ids) raise ZeroDivisionError
EloRaises(winner_ids, loser_ids) == winner_ids = <<>> \/ loser_ids = <<>>

-----------------------------------------------------------------------------
(* Pairing and elimination *)

\* a variant of the loop of lines 153-157 that goes on only while more than two
\* teams are left
RECURSIVE RoundMatchesLeavesPair(_)
RoundMatchesLeavesPair(shuffled) ==
    LET len == Len(shuffled)
    IN IF len > 2
       THEN <<PairedMatch(Unnamed, shuffled[len], shuffled[len - 1], "upper")>>
            \o RoundMatchesLeavesPair(SubSeq(shuffled, 1, len - 2))
       ELSE IF len >= 1
            THEN <<ByeMatch(Unnamed, shuffled[1], "upper")>>
            ELSE <<>>

\* create_round_matches after the shuffle: pops two teams off the end of
\* shuffled until fewer than two are left; a team left over gets a bye
RECURSIVE RoundMatches(_)
RoundMatches(shuffled) ==
    LET len == Len(shuffled)
    IN IF len >= 2
       THEN <<PairedMatch(Unnamed, shuffled[len], shuffled[len - 1], "upper")>>
            \o RoundMatches(SubSeq(shuffled, 1, len - 2))
       ELSE IF len = 1
            THEN <<ByeMatch(Unnamed, shuffled[1], "upper")>>
            ELSE <<>>

\* the results create_round_matches can return for team_ids
create_round_matches(team_ids) ==
    {RoundMatches(sh) : sh \in Shuffles(team_ids)}

\* some list of the keys of the teams map
RECURSIVE KeyList(_)
KeyList(keys) ==
    IF keys = {} THEN <<>>
    ELSE LET k == CHOOSE x \in keys : TRUE IN <<k>> \o KeyList(keys \ {k})

\* the set eliminated of try_pair_pending
Eliminated(doc) ==
    {(IF m.teamB = m.winner THEN m.teamA ELSE m.teamB) :
        m \in {x \in Range(doc.matches) :
                 x.bracket = "lower" /\ x.winner # None /\ ~x.bye}} \ {None}

Alive(doc) == (DOMAIN doc.teams) \ Eliminated(doc)

-----------------------------------------------------------------------------
(* Handler frames *)

IdleFrame ==
    [pc |-> "idle", caller |-> "", name |-> "", team |-> "", members |-> <<>>, i |-> 0,
     tourney |-> NoTournament, matches |-> <<>>,
     match_id |-> 0, winner_team |-> "", loser_team |-> "",
     winner_ids |-> <<>>, loser_ids |-> <<>>,
     pend_lower |-> <<>>, pend_upper |-> <<>>,
     players |-> <<>>, updates |-> <<>>,
     pu |-> <<>>, pl |-> <<>>, updated |-> FALSE, m |-> NoMatch, champ |-> None]

NoReply == [msg |-> "", match_id |-> 0]

Said(msg) == [msg |-> msg, match_id |-> 0]

SaidOf(msg, match_id) == [msg |-> msg, match_id |-> match_id]

\* the handler returns (or raises) after sending r
Return(p, r) ==
    /\ frame' = [frame EXCEPT ![p] = IdleFrame]
    /\ reply' = [reply EXCEPT ![p] = r]

\* the handler goes on from frame f
Goto(p, f) ==
    /\ frame' = [frame EXCEPT ![p] = f]
    /\ UNCHANGED reply

Idle(p) == frame[p].pc = "idle"

AllIdle == \A p \in Handlers : Idle(p)

\* a command takes the first free handler; it arrives while another command
\* runs only as often as env.overlap allows
Admit(p) ==
    /\ Idle(p)
    /\ \A q \in Handlers : q < p => ~Idle(q)
    /\ AllIdle \/ env.overlap > 0

\* the collections are empty and no command runs
Empty ==
    /\ tournaments_col = <<>>
    /\ players_col = <<>>
    /\ frame = [p \in Handlers |-> IdleFrame]
    /\ reply = [p \in Handlers |-> NoReply]
    /\ reports = {}

\* the locals of a lobby handler that is not running
IdleButton == [pc |-> "idle", caller |-> "", user |-> 0, said |-> ""]

NoClicks == [join |-> 0, leave |-> 0, show |-> 0, start |-> 0]

AllClicks == [join |-> MaxJoin, leave |-> MaxLeave, show |-> MaxShow, start |-> MaxStartQueue]

\* lines 318-319: the lobby as the module leaves it when loaded
EmptyLobby ==
    /\ queue = <<>>
    /\ current_queue_message = None
    /\ button = [h \in Clickers |-> IdleButton]

Start ==
    /\ Empty
    /\ EmptyLobby
    /\ clicks = NoClicks
    /\ crm_in = <<>>
    /\ crm_out = <<>>

Scenario(create, addteam, start, report, overlap, teams, rosters) ==
    [create |-> create, addteam |-> addteam, start |-> start, report |-> report,
     overlap |-> overlap, teams |-> teams, rosters |-> rosters, honest |-> FALSE]

\* a tournament of two teams started MaxRestart times, then reported on
Restarted == Scenario(MaxCreate, 2, MaxRestart, MaxReport + 1, 0, FewTeams, FewRosters)

\* up to MaxAddTeam teams, started once, then reported on
Played == Scenario(1, MaxAddTeam, 1, MaxReport, 0, TeamNames, Rosters)

\* a tournament of two teams that is sent commands after it has finished
Continued == Scenario(1, MaxAddTeam, MaxRestart, MaxReport + 2, 0, FewTeams, FewRosters)

\* the same with MaxOverlap commands arriving while another runs
Raced == Scenario(1, 2, 1, MaxReport, MaxOverlap, FewTeams, FewRosters)

CreateRaced == Scenario(MaxCreate, 1, 0, 0, MaxOverlap, FewTeams, FewRosters)

\* two starts leave two matches to report on, and the reports may overlap
RacedTwice ==
    [Scenario(1, 2, MaxRestart, MaxReport, MaxOverlap, FewTeams, {<<1>>})
        EXCEPT !.honest = TRUE]

\* commands may arrive while another runs
Init ==
    /\ Start
    /\ env \in {Raced, CreateRaced, Restarted}

\* commands arrive one at a time: none is invoked while another runs
InitSerial ==
    /\ Start
    /\ env \in {Played, Restarted, Continued}

Spend(cmd) ==
    env' = [env EXCEPT ![cmd] = @ - 1,
                       !.overlap = IF AllIdle THEN @ ELSE @ - 1]

Unused == UNCHANGED <<crm_in, crm_out, queue, current_queue_message, button, clicks>>

-----------------------------------------------------------------------------
(* createtourney *)

\* lines 466-470: the command is invoked and reads the tournament
createtourney(p) ==
    /\ Admit(p)
    /\ env.create > 0
    /\ Spend("create")
    /\ \E name \in TourneyNames :
          IF Found(get_tournament(name))
          THEN Return(p, Said("Tournament with this name already exists."))
          ELSE /\ frame' = [frame EXCEPT ![p] = [IdleFrame EXCEPT !.pc = "create_insert", !.caller = "createtourney",
                                                       !.name = name]]
               /\ reply' = [reply EXCEPT ![p] = NoReply]
    /\ UNCHANGED <<tournaments_col, players_col, reports>>
    /\ Unused

\* lines 471-472 and create_tournament_doc: insert_one
create_insert(p) ==
    /\ frame[p].pc = "create_insert"
    /\ tournaments_col' = Append(tournaments_col, NewTournamentDoc(frame[p].name))
    /\ Return(p, Said("created"))
    /\ UNCHANGED <<players_col, reports, env>>
    /\ Unused

-----------------------------------------------------------------------------
(* addteam *)

\* where addteam goes after ensuring members[1..i]
AfterEnsure(f) ==
    IF f.i < Len(f.members)
    THEN [f EXCEPT !.pc = "ensure_find", !.i = f.i + 1]
    ELSE [f EXCEPT !.pc = "addteam_update"]

\* lines 475-480: the command is invoked and reads the tournament
addteam(p) ==
    /\ Admit(p)
    /\ env.addteam > 0
    /\ Spend("addteam")
    /\ \E name \in TourneyNames, team \in env.teams, members \in env.rosters :
          IF ~Found(get_tournament(name))
          THEN Return(p, Said("Tournament not found."))
          ELSE /\ frame' = [frame EXCEPT ![p] =
                     AfterEnsure([IdleFrame EXCEPT !.caller = "addteam", !.name = name,
                                                   !.team = team, !.members = members])]
               /\ reply' = [reply EXCEPT ![p] = NoReply]
    /\ UNCHANGED <<tournaments_col, players_col, reports>>
    /\ Unused

\* a variant of lines 485-486 that adds the player ids to the team's roster
MergeTeam(teams, team, ids) ==
    [t \in DOMAIN teams \cup {team} |->
        IF t = team
        THEN (IF t \in DOMAIN teams THEN teams[t] ELSE <<>>) \o ids
        ELSE teams[t]]

\* lines 485-486: $set teams.<team_name> to the player ids
SetTeam(teams, team, ids) ==
    [t \in DOMAIN teams \cup {team} |-> IF t = team THEN ids ELSE teams[t]]

addteam_update(p) ==
    /\ frame[p].pc = "addteam_update"
    /\ LET d == get_tournament(frame[p].name)
       IN tournaments_col' = update_tournament(frame[p].name,
              [d EXCEPT !.teams = SetTeam(d.teams, frame[p].team, frame[p].members)])
    /\ Return(p, Said("added"))
    /\ UNCHANGED <<players_col, reports, env>>
    /\ Unused

-----------------------------------------------------------------------------
(* starttourney *)

\* lines 509-519: the command is invoked, reads the tournament and makes the
\* matches of the first round
starttourney(p) ==
    /\ Admit(p)
    /\ env.start > 0
    /\ Spend("start")
    /\ \E name \in TourneyNames :
          LET tourney == get_tournament(name)
              teams == KeyList(DOMAIN tourney.teams)
          IN IF ~Found(tourney)
             THEN Return(p, Said("Tournament not found."))
             ELSE IF Len(teams) < 2
             THEN Return(p, Said("Need at least 2 teams."))
             ELSE \E matches \in create_round_matches(teams) :
                     /\ frame' = [frame EXCEPT ![p] =
                           [IdleFrame EXCEPT !.pc = "start_append", !.caller = "starttourney",
                                             !.name = name,
                                             !.tourney = tourney,
                                             !.matches = matches, !.i = 1]]
                     /\ reply' = [reply EXCEPT ![p] = NoReply]
    /\ UNCHANGED <<tournaments_col, players_col, reports>>
    /\ Unused

\* lines 521-522: append match i
start_append(p) ==
    /\ frame[p].pc = "start_append"
    /\ tournaments_col' = append_match_to_tourney(frame[p].name, frame[p].matches[frame[p].i])
    /\ LET f == [frame[p] EXCEPT !.matches[frame[p].i].id = make_match_id(frame[p].name)]
       IN IF f.i < Len(f.matches)
          THEN Goto(p, [f EXCEPT !.i = @ + 1])
          ELSE Goto(p, [f EXCEPT !.pc = "start_status"])
    /\ UNCHANGED <<players_col, reports, env>>
    /\ Unused

\* a variant of line 524 that empties the pools and leaves the status
start_status_kept(p) ==
    /\ frame[p].pc = "start_status"
    /\ LET d == get_tournament(frame[p].name)
       IN tournaments_col' = update_tournament(frame[p].name,
              [d EXCEPT !.pending_upper = <<>>, !.pending_lower = <<>>])
    /\ Goto(p, [frame[p] EXCEPT !.pc = "start_round"])
    /\ UNCHANGED <<players_col, reports, env>>
    /\ Unused

\* line 524: status running, both pools empty
start_status(p) ==
    /\ frame[p].pc = "start_status"
    /\ LET d == get_tournament(frame[p].name)
       IN tournaments_col' = update_tournament(frame[p].name,
              [d EXCEPT !.status = "running", !.pending_upper = <<>>,
                        !.pending_lower = <<>>])
    /\ Goto(p, [frame[p] EXCEPT !.pc = "start_round"])
    /\ UNCHANGED <<players_col, reports, env>>
    /\ Unused

\* lines 526-535: $push the list of the round's ids to upper_rounds
start_round(p) ==
    /\ frame[p].pc = "start_round"
    /\ LET d == get_tournament(frame[p].name)
           round_ids == [i \in 1..Len(frame[p].matches) |-> frame[p].matches[i].id]
       IN tournaments_col' = update_tournament(frame[p].name,
              [d EXCEPT !.upper_rounds = Append(@, round_ids)])
    /\ Return(p, Said("Started tournament."))
    /\ UNCHANGED <<players_col, reports, env>>
    /\ Unused

-----------------------------------------------------------------------------
(* matchresult *)

\* the match ids a user can name: those of the tournament's matches, and one
\* that no match has
MatchIdArgs(name) == {0} \cup {m.id : m \in Range(get_tournament(name).matches)}

\* the winner and the loser a user can name for the match: any two team names,
\* or, from users who report what happened, its two sides either way round
TeamArgs(match) ==
    IF env.honest /\ match.teamB # None
    THEN {<<match.teamA, match.teamB>>, <<match.teamB, match.teamA>>}
    ELSE env.teams \X env.teams

\* a variant of line 584 that finds no match resolved
HasWinnerNever(match) == FALSE

\* line 584: if match.get("winner")
HasWinner(match) == match.winner # None

\* line 589: both names are keys of the teams map
TeamsKnown(teams, winner_team, loser_team) ==
    winner_team \in DOMAIN teams /\ loser_team \in DOMAIN teams

\* the history entry of handler p's report in progress
Running(p) == CHOOSE r \in reports : r.handler = p /\ r.outcome = "running"

Close(p, outcome) ==
    reports' = (reports \ {Running(p)}) \cup {[Running(p) EXCEPT !.outcome = outcome]}

\* handler p's report appended the match of id id
Made(p, id) ==
    reports' = (reports \ {Running(p)}) \cup {[Running(p) EXCEPT !.made = @ \cup {id}]}

\* lines 575-593: the command is invoked, reads the tournament and validates
matchresult(p) ==
    /\ Admit(p)
    /\ env.report > 0
    /\ Spend("report")
    /\ \E name \in TourneyNames :
       \E match_id \in MatchIdArgs(name) :
       \E teams \in TeamArgs(find_match(get_tournament(name), match_id)) :
          LET tourney == get_tournament(name)
              match == find_match(tourney, match_id)
              winner_team == teams[1]
              loser_team == teams[2]
          IN IF ~Found(tourney)
             THEN Return(p, Said("Tournament not found."))
             ELSE IF match.id = Unnamed
             THEN Return(p, Said("Match not found."))
             ELSE IF HasWinner(match)
             THEN Return(p, SaidOf("This match already has a reported winner.", match_id))
             ELSE IF ~TeamsKnown(tourney.teams, winner_team, loser_team)
             THEN Return(p, SaidOf("One or both team names not found in tournament", match_id))
             ELSE /\ frame' = [frame EXCEPT ![p] =
                        [IdleFrame EXCEPT !.pc = "report_winner", !.caller = "matchresult",
                                          !.name = name,
                                          !.match_id = match_id,
                                          !.winner_team = winner_team,
                                          !.loser_team = loser_team,
                                          !.winner_ids = tourney.teams[winner_team],
                                          !.loser_ids = tourney.teams[loser_team]]]
                  /\ reply' = [reply EXCEPT ![p] = NoReply]
    /\ UNCHANGED <<tournaments_col, players_col, reports>>
    /\ Unused

\* lines 596-599: write the winner into the match
report_winner(p) ==
    /\ frame[p].pc = "report_winner"
    /\ tournaments_col' = set_match_winner(frame[p].name, frame[p].match_id, frame[p].winner_team)
    /\ reports' = reports \cup
          {[handler |-> p, match_id |-> frame[p].match_id,
            winner |-> frame[p].winner_team, loser |-> frame[p].loser_team,
            outcome |-> "running", made |-> {}]}
    /\ Goto(p, [frame[p] EXCEPT !.pc = "report_read"])
    /\ UNCHANGED <<players_col, env>>
    /\ Unused

\* lines 602-604, 607-608: read the pools and append to the copies read
report_read(p) ==
    /\ frame[p].pc = "report_read"
    /\ LET tdoc == get_tournament(frame[p].name)
       IN Goto(p, [frame[p] EXCEPT !.pc = "report_lower",
                       !.pend_lower = Append(tdoc.pending_lower, frame[p].loser_team),
                       !.pend_upper = Append(tdoc.pending_upper, frame[p].winner_team)])
    /\ UNCHANGED <<tournaments_col, players_col, reports, env>>
    /\ Unused

\* line 605: store pending_lower
report_lower(p) ==
    /\ frame[p].pc = "report_lower"
    /\ LET d == get_tournament(frame[p].name)
       IN tournaments_col' = update_tournament(frame[p].name,
              [d EXCEPT !.pending_lower = frame[p].pend_lower])
    /\ Goto(p, [frame[p] EXCEPT !.pc = "report_upper"])
    /\ UNCHANGED <<players_col, reports, env>>
    /\ Unused

\* adjust_elo_for_match once players[ids[1..i]] are read: the next read, or
\* lines 106-121
AfterRead(f) ==
    IF f.i < Len(f.winner_ids) + Len(f.loser_ids)
    THEN [f EXCEPT !.pc = "ensure_find", !.i = f.i + 1]
    ELSE IF EloRaises(f.winner_ids, f.loser_ids)
    THEN [f EXCEPT !.pc = "raise"]
    ELSE [f EXCEPT !.pc = "elo_update", !.i = 1, !.players = <<>>,
                   !.updates = EloUpdates(f.players, f.winner_ids, f.loser_ids)]

\* the frame f goes on, or the handler ends with the exception
GotoOrRaise(p, f) ==
    IF f.pc = "raise"
    THEN /\ Return(p, Said("exception"))
         /\ Close(p, "raised")
    ELSE /\ Goto(p, f)
         /\ UNCHANGED reports

\* line 609: store pending_upper; lines 611-613, 102-103: adjust_elo_for_match
\* is entered
report_upper(p) ==
    /\ frame[p].pc = "report_upper"
    /\ LET d == get_tournament(frame[p].name)
       IN tournaments_col' = update_tournament(frame[p].name,
              [d EXCEPT !.pending_upper = frame[p].pend_upper])
    /\ GotoOrRaise(p, AfterRead([frame[p] EXCEPT !.i = 0, !.pend_lower = <<>>,
                                                  !.pend_upper = <<>>]))
    /\ UNCHANGED <<players_col, env>>
    /\ Unused

-----------------------------------------------------------------------------
(* ensure_player_doc, called by addteam and by adjust_elo_for_match *)

\* the ids the caller's loop passes to ensure_player_doc
EnsureIds(f) == IF f.caller = "addteam" THEN f.members ELSE f.winner_ids \o f.loser_ids

\* the caller goes on with the document returned, whose elo is elo
Ensured(f, elo) ==
    IF f.caller = "addteam"
    THEN AfterEnsure(f)
    ELSE AfterRead([f EXCEPT !.players = (EnsureIds(f)[f.i] :> elo) @@ @])

\* line 75: find_one; lines 81-85 return the document found
ensure_find(p) ==
    /\ frame[p].pc = "ensure_find"
    /\ LET pid == EnsureIds(frame[p])[frame[p].i]
       IN IF PlayerExists(pid)
          THEN GotoOrRaise(p, Ensured(frame[p], get_player(pid).elo))
          ELSE /\ Goto(p, [frame[p] EXCEPT !.pc = "ensure_insert"])
               /\ UNCHANGED reports
    /\ UNCHANGED <<tournaments_col, players_col, env>>
    /\ Unused

\* lines 76-80: insert_one of the default document
ensure_insert(p) ==
    /\ frame[p].pc = "ensure_insert"
    /\ players_col' = Append(players_col, NewPlayerDoc(EnsureIds(frame[p])[frame[p].i]))
    /\ GotoOrRaise(p, Ensured(frame[p], DefaultElo))
    /\ UNCHANGED <<tournaments_col, env>>
    /\ Unused

-----------------------------------------------------------------------------
(* adjust_elo_for_match, lines 123-128 *)

\* line 125: if pid in winner_ids
CountsAsWin(pid, winner_ids) == pid \in Range(winner_ids)

\* lines 124-128: persist update i
elo_update(p) ==
    /\ frame[p].pc = "elo_update"
    /\ LET u == frame[p].updates[frame[p].i]
       IN players_col' = record_result(u[1], CountsAsWin(u[1], frame[p].winner_ids), u[2])
    /\ IF frame[p].i < Len(frame[p].updates)
       THEN Goto(p, [frame[p] EXCEPT !.i = @ + 1])
       ELSE Goto(p, [frame[p] EXCEPT !.pc = "pair_read", !.i = 0, !.updates = <<>>,
                                     !.winner_ids = <<>>, !.loser_ids = <<>>])
    /\ UNCHANGED <<tournaments_col, reports, env>>
    /\ Unused

-----------------------------------------------------------------------------
(* try_pair_pending *)

\* the match the loops of lines 213-242 make next
PairStep(f) ==
    IF Len(f.pu) >= 2
    THEN [f EXCEPT !.pc = "pair_append", !.pu = SubSeq(f.pu, 3, Len(f.pu)),
                   !.m = PairedMatch(Unnamed, f.pu[1], f.pu[2], "upper")]
    ELSE IF Len(f.pu) = 1
    THEN [f EXCEPT !.pc = "pair_append", !.pu = <<>>,
                   !.m = ByeMatch(Unnamed, f.pu[1], "upper")]
    ELSE IF Len(f.pl) >= 2
    THEN [f EXCEPT !.pc = "pair_append", !.pl = SubSeq(f.pl, 3, Len(f.pl)),
                   !.m = PairedMatch(Unnamed, f.pl[1], f.pl[2], "lower")]
    ELSE IF Len(f.pl) = 1
    THEN [f EXCEPT !.pc = "pair_append", !.pl = <<>>,
                   !.m = ByeMatch(Unnamed, f.pl[1], "lower")]
    ELSE IF f.updated
    THEN [f EXCEPT !.pc = "pair_store", !.m = NoMatch]
    ELSE [f EXCEPT !.pc = "pair_check", !.m = NoMatch]

\* lines 205-212, 229: read the tournament and its pools
pair_read(p) ==
    /\ frame[p].pc = "pair_read"
    /\ LET tourney == get_tournament(frame[p].name)
       IN Goto(p, PairStep([frame[p] EXCEPT !.pu = tourney.pending_upper,
                                            !.pl = tourney.pending_lower,
                                            !.updated = FALSE]))
    /\ UNCHANGED <<tournaments_col, players_col, reports, env>>
    /\ Unused

\* lines 216, 224, 233, 240: append the match
pair_append(p) ==
    /\ frame[p].pc = "pair_append"
    /\ tournaments_col' = append_match_to_tourney(frame[p].name, frame[p].m)
    /\ Goto(p, [frame[p] EXCEPT !.pc = "pair_round",
                                !.m.id = make_match_id(frame[p].name)])
    /\ Made(p, make_match_id(frame[p].name))
    /\ UNCHANGED <<players_col, env>>
    /\ Unused

\* lines 218, 225, 234, 241: push the match's round
pair_round(p) ==
    /\ frame[p].pc = "pair_round"
    /\ tournaments_col' = push_round(frame[p].name, frame[p].m.bracket, <<frame[p].m.id>>)
    /\ Goto(p, PairStep([frame[p] EXCEPT !.updated = TRUE]))
    /\ UNCHANGED <<players_col, reports, env>>
    /\ Unused

\* lines 244-246: store the drained pools
pair_store(p) ==
    /\ frame[p].pc = "pair_store"
    /\ LET d == get_tournament(frame[p].name)
       IN tournaments_col' = update_tournament(frame[p].name,
              [d EXCEPT !.pending_upper = frame[p].pu, !.pending_lower = frame[p].pl])
    /\ Goto(p, [frame[p] EXCEPT !.pc = "pair_check", !.pu = <<>>, !.pl = <<>>])
    /\ UNCHANGED <<players_col, reports, env>>
    /\ Unused

\* lines 249-267: read the tournament again and count the teams alive
pair_check(p) ==
    /\ frame[p].pc = "pair_check"
    /\ LET t == get_tournament(frame[p].name)
       IN IF Cardinality(Alive(t)) = 1
          THEN Goto(p, [frame[p] EXCEPT !.pc = "pair_finish", !.updated = FALSE,
                            !.champ = CHOOSE tm \in Alive(t) : TRUE])
          ELSE Goto(p, [frame[p] EXCEPT !.pc = "report_done", !.updated = FALSE])
    /\ UNCHANGED <<tournaments_col, players_col, reports, env>>
    /\ Unused

\* line 268: declare the champion
pair_finish(p) ==
    /\ frame[p].pc = "pair_finish"
    /\ LET d == get_tournament(frame[p].name)
       IN tournaments_col' = update_tournament(frame[p].name,
              [d EXCEPT !.status = "finished", !.champion = frame[p].champ])
    /\ Goto(p, [frame[p] EXCEPT !.pc = "report_done", !.champ = None])
    /\ UNCHANGED <<players_col, reports, env>>
    /\ Unused

\* lines 617-623: read the tournament and answer
report_done(p) ==
    /\ frame[p].pc = "report_done"
    /\ IF get_tournament(frame[p].name).status = "finished"
       THEN Return(p, SaidOf("Tournament finished!", frame[p].match_id))
       ELSE Return(p, SaidOf("Result recorded", frame[p].match_id))
    /\ Close(p, "recorded")
    /\ UNCHANGED <<tournaments_col, players_col, env>>
    /\ Unused

-----------------------------------------------------------------------------
(* Specifications *)

Invoke(p) ==
    \/ createtourney(p)
    \/ addteam(p)
    \/ starttourney(p)
    \/ matchresult(p)

Step(p) ==
    \/ create_insert(p)
    \/ ensure_find(p)
    \/ ensure_insert(p)
    \/ addteam_update(p)
    \/ start_append(p)
    \/ start_status(p)
    \/ start_round(p)
    \/ report_winner(p)
    \/ report_read(p)
    \/ report_lower(p)
    \/ report_upper(p)
    \/ elo_update(p)
    \/ pair_read(p)
    \/ pair_append(p)
    \/ pair_round(p)
    \/ pair_store(p)
    \/ pair_check(p)
    \/ pair_finish(p)
    \/ report_done(p)

\* handlers run as coroutines of one event loop, interleaved at their awaits
Next == \E p \in Handlers : Invoke(p) \/ Step(p)

Spec == Init /\ [][Next]_vars

SerialSpec == InitSerial /\ [][Next]_vars

\* result reports may arrive while another result report runs; every other
\* command runs alone
InitReportRace ==
    /\ Start
    /\ env \in {RacedTwice, Restarted}

OnlyReports == \A q \in Handlers : Idle(q) \/ frame[q].caller = "matchresult"

NextReportRace ==
    \E p \in Handlers :
        \/ AllIdle /\ createtourney(p)
        \/ AllIdle /\ addteam(p)
        \/ AllIdle /\ starttourney(p)
        \/ OnlyReports /\ matchresult(p)
        \/ Step(p)

ReportRaceSpec == InitReportRace /\ [][NextReportRace]_vars

-----------------------------------------------------------------------------
(* create_round_matches alone *)

PoolNames == <<"A", "B", "C", "D", "E">>

\* the lists of distinct team names of up to MaxPairInput teams
PairInputs ==
    UNION {{q \in [1..n -> {PoolNames[i] : i \in 1..MaxPairInput}] :
               \A i, j \in 1..n : i # j => q[i] # q[j]} : n \in 0..MaxPairInput}

InitPair ==
    /\ Empty
    /\ EmptyLobby
    /\ clicks = NoClicks
    /\ env = Scenario(0, 0, 0, 0, 0, {}, {})
    /\ crm_in \in PairInputs
    /\ crm_out = <<>>

\* create_round_matches(crm_in) returns; crm_out lists what was returned
call_create_round_matches ==
    /\ crm_out = <<>>
    /\ \E matches \in create_round_matches(crm_in) : crm_out' = <<matches>>
    /\ UNCHANGED <<tournaments_col, players_col, frame, reply, reports, env, crm_in>>
    /\ UNCHANGED <<queue, current_queue_message, button, clicks>>

PairSpec == InitPair /\ [][call_create_round_matches]_vars

-----------------------------------------------------------------------------
(* The lobby queue: start_queue, join_button, leave_button, show_queue *)

Tournaments == <<tournaments_col, players_col, frame, reply, reports, env, crm_in, crm_out>>

\* a handler of the lobby runs from one await to the next in one step
ButtonGoto(h, f) == button' = [button EXCEPT ![h] = f]

\* handler h ends, having answered said ("" when it answers nothing)
ButtonReturn(h, said) == ButtonGoto(h, [IdleButton EXCEPT !.said = said])

Click(what) == clicks' = [clicks EXCEPT ![what] = @ - 1]

\* `user in queue`
InQueue(user) == \E i \in 1..Len(queue) : queue[i] = user

\* queue.remove(user): the queue without the first entry equal to user
Remove(q, user) ==
    LET i == FirstIndex(q, LAMBDA x : x = user)
    IN SubSeq(q, 1, i - 1) \o SubSeq(q, i + 1, Len(q))

\* users are alike: the one that clicks is in the queue, or is the first of
\* those that are not
Clicking(user) ==
    \/ InQueue(user)
    \/ /\ ~InQueue(user)
       /\ \A u \in Users : u < user => InQueue(u)

\* lines 382-385, up to the await: update_queue_message edits the message that
\* shows the queue when there is one, and sends one otherwise
call_update_queue_message(h, caller, user) ==
    ButtonGoto(h, [IdleButton EXCEPT !.pc = IF current_queue_message # None
                                            THEN "update_edit" ELSE "update_send",
                                     !.caller = caller, !.user = user])

\* lines 323-327: /startqueue clears the queue and answers
start_queue(h) ==
    /\ button[h].pc = "idle"
    /\ clicks.start > 0
    /\ Click("start")
    /\ queue' = <<>>
    /\ ButtonGoto(h, [IdleButton EXCEPT !.pc = "start_reply", !.caller = "start_queue"])
    /\ UNCHANGED <<Tournaments, current_queue_message>>

\* line 328: the answer is sent, start_queue calls update_queue_message
start_replied(h) ==
    /\ button[h].pc = "start_reply"
    /\ call_update_queue_message(h, "start_queue", 0)
    /\ UNCHANGED <<Tournaments, queue, current_queue_message, clicks>>

\* lines 337-343: the Join button; a user in the queue is told so, any other
\* is appended and update_queue_message is called
join_button(h) ==
    /\ button[h].pc = "idle"
    /\ clicks.join > 0
    /\ Click("join")
    /\ \E user \in Users :
          /\ Clicking(user)
          /\ IF InQueue(user)
             THEN /\ ButtonReturn(h, "you're already in the queue.")
                  /\ UNCHANGED queue
             ELSE /\ queue' = Append(queue, user)
                  /\ call_update_queue_message(h, "join_button", user)
    /\ UNCHANGED <<Tournaments, current_queue_message>>

\* lines 353-359: the Leave button; a user not in the queue is told so, any
\* other is removed and update_queue_message is called
leave_button(h) ==
    /\ button[h].pc = "idle"
    /\ clicks.leave > 0
    /\ Click("leave")
    /\ \E user \in Users :
          IF ~InQueue(user)
          THEN /\ Clicking(user)
               /\ ButtonReturn(h, "you're not in the queue.")
               /\ UNCHANGED queue
          ELSE /\ queue' = Remove(queue, user)
               /\ call_update_queue_message(h, "leave_button", user)
    /\ UNCHANGED <<Tournaments, current_queue_message>>

\* lines 383 and 385, after the await, and the caller's next lines: the edit
\* is done, or the message sent becomes current_queue_message; join_button
\* then announces the lobby when the queue holds QueueCap names (lines 345-346)
update_queue_message(h) ==
    /\ button[h].pc \in {"update_edit", "update_send"}
    /\ current_queue_message' = IF button[h].pc = "update_send"
                                THEN "message" ELSE current_queue_message
    /\ IF button[h].caller = "join_button" /\ Len(queue) = QueueCap
       THEN ButtonGoto(h, [button[h] EXCEPT !.pc = "join_announce"])
       ELSE ButtonReturn(h, "")
    /\ UNCHANGED <<Tournaments, queue, clicks>>

\* lines 346-348: the announcement is sent, the queue is cleared
join_announced(h) ==
    /\ button[h].pc = "join_announce"
    /\ queue' = <<>>
    /\ ButtonGoto(h, [button[h] EXCEPT !.pc = "join_sleep"])
    /\ UNCHANGED <<Tournaments, current_queue_message, clicks>>

\* lines 348-349: the sleep is over, a new message with the buttons is sent
join_slept(h) ==
    /\ button[h].pc = "join_sleep"
    /\ ButtonGoto(h, [button[h] EXCEPT !.pc = "join_repost"])
    /\ UNCHANGED <<Tournaments, queue, current_queue_message, clicks>>

\* line 349, after the await: join_button ends
join_reposted(h) ==
    /\ button[h].pc = "join_repost"
    /\ ButtonReturn(h, "10 players have joined!")
    /\ UNCHANGED <<Tournaments, queue, current_queue_message, clicks>>

\* lines 392-394, up to the await: !showqueue clears the queue and sends a message
show_queue(h) ==
    /\ button[h].pc = "idle"
    /\ clicks.show > 0
    /\ Click("show")
    /\ queue' = <<>>
    /\ ButtonGoto(h, [IdleButton EXCEPT !.pc = "show_send", !.caller = "show_queue"])
    /\ UNCHANGED <<Tournaments, current_queue_message>>

\* line 394, after the await: the message sent becomes current_queue_message
show_sent(h) ==
    /\ button[h].pc = "show_send"
    /\ current_queue_message' = "message"
    /\ ButtonReturn(h, "")
    /\ UNCHANGED <<Tournaments, queue, clicks>>

\* the lobby alone, with clicks and commands arriving while others run
InitQueue ==
    /\ Empty
    /\ EmptyLobby
    /\ clicks = AllClicks
    /\ env = Scenario(0, 0, 0, 0, 0, {}, {})
    /\ crm_in = <<>>
    /\ crm_out = <<>>

NextQueue ==
    \E h \in Clickers :
        \/ start_queue(h)
        \/ start_replied(h)
        \/ join_button(h)
        \/ leave_button(h)
        \/ update_queue_message(h)
        \/ join_announced(h)
        \/ join_slept(h)
        \/ join_reposted(h)
        \/ show_queue(h)
        \/ show_sent(h)

QueueSpec == InitQueue /\ [][NextQueue]_vars

-----------------------------------------------------------------------------
(* Properties *)

Docs == 1..Len(tournaments_col)

MatchesOf(d) == 1..Len(d.matches)

\* the ids of the matches that result reports appended
MadeIds == UNION {r.made : r \in reports}

\* the positions in d.matches of the matches that starts appended
InitialMatches(d) == {i \in MatchesOf(d) : d.matches[i].id \notin MadeIds}

\* d was started once: every team is a side of one match of the first round
StartedOnce(d) ==
    /\ d.status # "setup"
    /\ Cardinality(DOMAIN d.teams) >= 2
    /\ \A t \in DOMAIN d.teams :
          Cardinality({i \in InitialMatches(d) : t \in {d.matches[i].teamA, d.matches[i].teamB}}) = 1

AllResolved(d) == \A i \in MatchesOf(d) : d.matches[i].winner # None

\* the report r names the two sides of its match, one as winner, one as loser
Proper(d, r) ==
    LET m == find_match(d, r.match_id)
    IN {r.winner, r.loser} = {m.teamA, m.teamB} /\ r.winner # r.loser

\* C1 (as claimed): a tournament started once whose result reports ran one at
\* a time, each naming the two sides of its match, ends finished with a
\* champion: when no match is left to report and no report is left running,
\* the status is finished and the champion is set.
C1_FinishesWhenAllReported ==
    \A k \in Docs :
        LET d == tournaments_col[k]
        IN (/\ AllIdle
            /\ StartedOnce(d)
            /\ AllResolved(d)
            /\ \A r \in reports : r.outcome = "recorded" /\ Proper(d, r))
           => d.status = "finished" /\ d.champion # None

\* the match id named by the result report that handler p has just been sent
Reported(p) ==
    IF frame[p].pc = "idle" THEN reply[p].match_id ELSE frame[p].match_id

\* C2: a result report naming a match id for which a report was accepted
\* before is answered "This match already has a reported winner." and changes
\* neither the tournaments (pools, matches, winners) nor the players.
C2_SecondReportRejected ==
    [][\A p \in Handlers :
          (/\ Idle(p)
           /\ env'.report < env.report
           /\ \E r \in reports : r.match_id = Reported(p)')
          => /\ frame'[p].pc = "idle"
             /\ reply'[p].msg = "This match already has a reported winner."
             /\ tournaments_col' = tournaments_col
             /\ players_col' = players_col]_vars

\* C2 witness: a report on a match between two teams was recorded, and a
\* second report on the same match has been rejected
C2_Witness ==
    \E p \in Handlers, r \in reports :
        /\ reply[p] = SaidOf("This match already has a reported winner.", r.match_id)
        /\ r.outcome = "recorded"
        /\ \E k \in Docs : ~find_match(tournaments_col[k], r.match_id).bye

\* C3 (as claimed): a winner once set is never changed by a later step, and
\* no match id has two accepted reports, also when handlers interleave.
C3_WinnerWrittenOnce ==
    [][/\ \A k \in Docs : \A i \in MatchesOf(tournaments_col[k]) :
             tournaments_col[k].matches[i].winner # None
             => tournaments_col'[k].matches[i].winner = tournaments_col[k].matches[i].winner
       /\ \A r1, r2 \in reports' : r1.match_id = r2.match_id => r1 = r2]_vars

\* the number of sides of the matches that reports appended to d's bracket
\* that team t takes
NewSides(d, bracket, t) ==
    LET new == {i \in MatchesOf(d) :
                  d.matches[i].id \in MadeIds /\ d.matches[i].bracket = bracket}
    IN Cardinality({i \in new : d.matches[i].teamA = t})
       + Cardinality({i \in new : d.matches[i].teamB = t})

\* C4 (as claimed): once result reports on different matches have all
\* completed, overlapping or not, every team is a side of as many new upper
\* matches as reports named it winner and of as many new lower matches as
\* reports named it loser: none lost, none duplicated.
C4_NoTeamLostOrDuplicated ==
    \A k \in Docs :
        LET d == tournaments_col[k]
        IN (/\ AllIdle
            /\ \A r \in reports : r.outcome = "recorded"
            /\ \A r1, r2 \in reports : r1.match_id = r2.match_id => r1 = r2)
           => \A t \in DOMAIN d.teams :
                 /\ NewSides(d, "upper", t) = Cardinality({r \in reports : r.winner = t})
                 /\ NewSides(d, "lower", t) = Cardinality({r \in reports : r.loser = t})

\* the number of sides team t takes in the list of matches ms
SidesIn(ms, t) ==
    Cardinality({i \in 1..Len(ms) : ms[i].teamA = t})
    + Cardinality({i \in 1..Len(ms) : ms[i].teamB = t})

\* C5: for N distinct team names create_round_matches returns ceil(N/2)
\* matches, one of them a bye when N is odd and none when N is even, and every
\* team named is a side of exactly one of them.
C5_RoundPairsEveryTeamOnce ==
    \A k \in 1..Len(crm_out) :
        LET ms == crm_out[k]
            N == Len(crm_in)
        IN /\ Len(ms) = (N + 1) \div 2
           /\ Cardinality({i \in 1..Len(ms) : ms[i].bye}) = N % 2
           /\ \A t \in Range(crm_in) : SidesIn(ms, t) = 1

\* C5 witness: the matches of three teams were returned
C5_Witness == Len(crm_in) = 3 /\ crm_out # <<>>

\* C6 (as claimed): a start on a tournament whose status was not setup when
\* the handler read it changes nothing of the tournament.
C6_StartOnlyInSetup ==
    [][\A p \in Handlers :
          (frame[p].caller = "starttourney" /\ frame[p].tourney.status # "setup")
          => tournaments_col' = tournaments_col]_vars

\* C7: a start on a setup tournament of fewer than 2 teams changes nothing;
\* on one of N >= 2 teams it has, when it returns, appended ceil(N/2) upper
\* matches holding every team exactly once and one round of exactly their ids
\* to upper_rounds, left both pools empty and set status to running.
C7_StartMakesFirstRound ==
    [][\A p \in Handlers :
          /\ \A name \in TourneyNames :
                (/\ Idle(p)
                 /\ env'.start < env.start
                 /\ Found(get_tournament(name))
                 /\ get_tournament(name).status = "setup"
                 /\ Cardinality(DOMAIN get_tournament(name).teams) < 2)
                => frame'[p].pc = "idle" /\ tournaments_col' = tournaments_col
          /\ (frame[p].pc = "start_round" /\ frame[p].tourney.status = "setup")
             => LET old == frame[p].tourney
                    new == tournaments_col'[TIdx(frame[p].name)]
                    N == Cardinality(DOMAIN old.teams)
                    added == SubSeq(new.matches, Len(old.matches) + 1, Len(new.matches))
                IN /\ frame'[p].pc = "idle"
                   /\ SubSeq(new.matches, 1, Len(old.matches)) = old.matches
                   /\ Len(added) = (N + 1) \div 2
                   /\ \A i \in 1..Len(added) : added[i].bracket = "upper"
                   /\ \A t \in DOMAIN old.teams : SidesIn(added, t) = 1
                   /\ new.upper_rounds =
                         Append(old.upper_rounds, [i \in 1..Len(added) |-> added[i].id])
                   /\ new.lower_rounds = old.lower_rounds
                   /\ new.pending_upper = <<>>
                   /\ new.pending_lower = <<>>
                   /\ new.status = "running"]_vars

\* C7 witness: a start on a tournament of three teams has returned
C7_Witness ==
    \E p \in Handlers, k \in Docs :
        /\ reply[p] = Said("Started tournament.")
        /\ tournaments_col[k].status = "running"
        /\ Cardinality(DOMAIN tournaments_col[k].teams) = 3
        /\ Len(tournaments_col[k].matches) = 2
        /\ Len(tournaments_col[k].upper_rounds) = 1

\* C8 (as claimed): the team map of a tournament that is not in setup never
\* changes.
C8_TeamsFixedAfterSetup ==
    [][\A k \in Docs :
          tournaments_col[k].status # "setup"
          => tournaments_col'[k].teams = tournaments_col[k].teams]_vars

\* C9: addteam naming a team the tournament already has sets that team's
\* roster to the players of this call alone, and changes no other team's
\* roster and not the number of teams.
C9_AddTeamReplaces ==
    [][\A p \in Handlers :
          LET k == TIdx(frame[p].name)
              teams == tournaments_col[k].teams
          IN (frame[p].pc = "addteam_update" /\ frame[p].team \in DOMAIN teams)
             => /\ tournaments_col'[k].teams[frame[p].team] = frame[p].members
                /\ DOMAIN tournaments_col'[k].teams = DOMAIN teams
                /\ \A t \in DOMAIN teams \ {frame[p].team} :
                      tournaments_col'[k].teams[t] = teams[t]]_vars

\* C9 witness: the tournament's only team was added with player 1 in its
\* roster and then again with player 2 alone
C9_Witness ==
    \E p \in Handlers, k \in Docs :
        /\ reply[p] = Said("added")
        /\ tournaments_col[k].status = "setup"
        /\ DOMAIN tournaments_col[k].teams = {"A"}
        /\ tournaments_col[k].teams["A"] = <<2>>
        /\ PlayerExists(1)

\* C10 (as claimed): the winner of every match is absent or one of the two
\* sides of the match.
C10_WinnerIsASide ==
    \A k \in Docs : \A i \in MatchesOf(tournaments_col[k]) :
        LET m == tournaments_col[k].matches[i]
        IN m.winner \in {None, m.teamA, m.teamB}

\* C11 (as claimed): no step changes a finished tournament (its status,
\* champion, teams, matches, rounds and pools) or, commands running one at a
\* time, the record of a player while the tournament is finished.
C11_FinishedIsTerminal ==
    [][\A k \in Docs :
          tournaments_col[k].status = "finished"
          => /\ tournaments_col'[k] = tournaments_col[k]
             /\ \A i \in 1..Len(players_col) : players_col'[i] = players_col[i]]_vars

\* team t was reported the loser of a non-bye lower match of d (the match is
\* resolved: a report is entered in the history when its winner is written)
LostLower(d, t) ==
    \E r \in reports :
        /\ r.loser = t
        /\ find_match(d, r.match_id).bracket = "lower"
        /\ ~find_match(d, r.match_id).bye

\* the teams of d without a loss in a lower match
Unbeaten(d) == {t \in DOMAIN d.teams : ~LostLower(d, t)}

\* C12 (as claimed): the champion of a finished tournament is set and is its
\* one and only team without a loss in a resolved non-bye lower match.
C12_ChampionIsLastUnbeaten ==
    \A k \in Docs :
        tournaments_col[k].status = "finished"
        => /\ tournaments_col[k].champion # None
           /\ Unbeaten(tournaments_col[k]) = {tournaments_col[k].champion}

\* C13 (as claimed): the alive set computed at line 264 leaves out exactly the
\* teams reported the loser of a resolved non-bye lower match.
C13_AliveIsUnbeaten ==
    \A p \in Handlers :
        frame[p].pc = "pair_check"
        => Alive(get_tournament(frame[p].name)) = Unbeaten(get_tournament(frame[p].name))

\* C14 (as claimed): in a tournament of three teams whose start paired x with
\* y and gave z the bye, once the one report "x beat y" has been recorded
\* there is an unresolved upper match between x and z and a lower bye for y,
\* and y is not eliminated.
C14_WinnerMeetsByeTeam ==
    \A k \in Docs :
        LET d == tournaments_col[k]
        IN \A x, y, z \in DOMAIN d.teams :
              (/\ AllIdle
               /\ Cardinality({x, y, z}) = 3
               /\ DOMAIN d.teams = {x, y, z}
               /\ Len(d.matches) >= 2
               /\ d.matches[1] = [PairedMatch(d.matches[1].id, x, y, "upper") EXCEPT !.winner = x]
               /\ d.matches[2] = ByeMatch(d.matches[2].id, z, "upper")
               /\ \E r \in reports :
                     /\ reports = {r}
                     /\ r.match_id = d.matches[1].id
                     /\ r.winner = x /\ r.loser = y
                     /\ r.outcome = "recorded")
              => /\ \E i \in MatchesOf(d) :
                       /\ d.matches[i].bracket = "upper"
                       /\ d.matches[i].winner = None
                       /\ {d.matches[i].teamA, d.matches[i].teamB} = {x, z}
                 /\ \E j \in MatchesOf(d) :
                       /\ d.matches[j].bracket = "lower"
                       /\ d.matches[j].bye
                       /\ d.matches[j].teamA = y
                 /\ y \in Alive(d)

\* the reports that named team t the loser of a non-bye lower match of d
LowerLosses(d, t) ==
    {r \in reports :
        /\ r.loser = t
        /\ find_match(d, r.match_id).bracket = "lower"
        /\ ~find_match(d, r.match_id).bye}

\* C15 (as claimed): in a finished tournament every team but the champion has
\* exactly one recorded loss in a resolved non-bye lower match.
C15_OneLossEach ==
    \A k \in Docs :
        LET d == tournaments_col[k]
        IN d.status = "finished"
           => \A t \in DOMAIN d.teams \ {d.champion} :
                 Cardinality(LowerLosses(d, t)) = 1

\* the messages of the rejections of C16
Rejections ==
    {"Tournament with this name already exists.", "Tournament not found.",
     "Need at least 2 teams.", "Match not found.",
     "One or both team names not found in tournament"}

\* the step leaves every tournament and every player record as it was
StoreUnchanged == tournaments_col' = tournaments_col /\ players_col' = players_col

\* handler p answers msg in this step, returns, and has stored nothing
RejectedWith(p, msg) ==
    /\ frame'[p].pc = "idle"
    /\ reply'[p].msg = msg
    /\ StoreUnchanged

\* C16: createtourney on a name taken, addteam, starttourney and matchresult
\* on a missing tournament and starttourney on fewer than 2 teams are answered
\* with their rejection and store nothing; matchresult goes on only with a
\* match of the tournament and two of its team names; and a command answered
\* with a rejection has stored nothing, no player record included.
C16_RejectedCallsStoreNothing ==
    [][\A p \in Handlers :
          (Admit(p) /\ env' # env)
          => /\ (env'.create < env.create /\ \A name \in TourneyNames : TIdx(name) # 0)
                => RejectedWith(p, "Tournament with this name already exists.")
             /\ (env'.create = env.create /\ \A name \in TourneyNames : TIdx(name) = 0)
                => RejectedWith(p, "Tournament not found.")
             /\ (/\ env'.start < env.start
                 /\ \A name \in TourneyNames :
                       TIdx(name) # 0 /\ Cardinality(DOMAIN get_tournament(name).teams) < 2)
                => RejectedWith(p, "Need at least 2 teams.")
             /\ (env'.report < env.report /\ frame'[p].pc # "idle")
                => LET d == get_tournament(frame'[p].name)
                   IN /\ MatchIdx(d, frame'[p].match_id) # 0
                      /\ frame'[p].winner_team \in DOMAIN d.teams
                      /\ frame'[p].loser_team \in DOMAIN d.teams
             /\ (frame'[p].pc = "idle" /\ reply'[p].msg \in Rejections)
                => StoreUnchanged]_vars

\* C16 witness: a report naming a team that the running tournament does not
\* have was rejected, and no player has a win or a loss
C16_Witness ==
    \E p \in Handlers, k \in Docs :
        /\ reply[p].msg = "One or both team names not found in tournament"
        /\ tournaments_col[k].status = "running"
        /\ DOMAIN tournaments_col[k].teams = {"A", "B"}
        /\ AllResolved(tournaments_col[k]) = FALSE
        /\ players_col # <<>>
        /\ \A i \in 1..Len(players_col) : players_col[i].wins = 0 /\ players_col[i].losses = 0

\* C17 (as claimed): at most one tournament exists per name, also when two
\* createtourney handlers for one name interleave at their storage calls.
C17_OneTournamentPerName ==
    \A j, k \in Docs :
        tournaments_col[j].name = tournaments_col[k].name => j = k

\* C18 (as claimed): when the update made for a player of the winning roster
\* is stored, that player gains one win and no loss; when the update made for
\* a player of the losing roster is stored, that player gains one loss and no
\* win, also when the player is in the winning roster too; no other player's
\* wins or losses change.
C18_WinsAndLossesCounted ==
    [][\A p \in Handlers :
          frame[p].pc = "elo_update"
          => LET pid == frame[p].updates[frame[p].i][1]
                 won == frame[p].i <= Len(frame[p].winner_ids)
             IN \A j \in 1..Len(players_col) :
                   /\ players_col'[j].wins = players_col[j].wins
                         + (IF j = PIdx(pid) /\ won THEN 1 ELSE 0)
                   /\ players_col'[j].losses = players_col[j].losses
                         + (IF j = PIdx(pid) /\ ~won THEN 1 ELSE 0)]_vars

\* the stored rating of player pid
StoredElo(pid) == get_player(pid).elo

\* the sum of the stored ratings of the players ids
StoredSum(ids) == SumSeq([i \in 1..Len(ids) |-> StoredElo(ids[i])])

\* C19: when the two rosters of a result have equal average stored ratings,
\* the updates computed from the ratings stored before any of them is applied
\* are + 16 for every player of the winning roster and - 16 for every player
\* of the losing roster, and each update stores exactly its computed rating.
C19_EqualAveragesSixteen ==
    [][\A p \in Handlers :
          /\ (/\ frame[p].pc # "elo_update"
              /\ frame'[p].pc = "elo_update"
              /\ StoredSum(frame[p].winner_ids) * Len(frame[p].loser_ids)
                    = StoredSum(frame[p].loser_ids) * Len(frame[p].winner_ids))
             => frame'[p].updates =
                   [i \in 1..Len(frame[p].winner_ids) |->
                       <<frame[p].winner_ids[i], StoredElo(frame[p].winner_ids[i]) + 16>>]
                   \o [i \in 1..Len(frame[p].loser_ids) |->
                       <<frame[p].loser_ids[i], StoredElo(frame[p].loser_ids[i]) - 16>>]
          /\ frame[p].pc = "elo_update"
             => LET u == frame[p].updates[frame[p].i]
                IN \A j \in 1..Len(players_col) :
                      players_col'[j].elo =
                         IF j = PIdx(u[1]) THEN u[2] ELSE players_col[j].elo]_vars

\* C19 witness: a result between two players rated 1200 each was recorded
C19_Witness ==
    /\ \E r \in reports : r.outcome = "recorded"
    /\ Cardinality(reports) = 1
    /\ \E i, j \in 1..Len(players_col) :
          /\ players_col[i] = [NewPlayerDoc(players_col[i].discord_id) EXCEPT
                                 !.wins = 1, !.elo = DefaultElo + 16]
          /\ players_col[j] = [NewPlayerDoc(players_col[j].discord_id) EXCEPT
                                 !.losses = 1, !.elo = DefaultElo - 16]

\* C20 (as claimed): no match of a tournament has the same team as teamA and
\* as teamB.
C20_NoTeamPairedWithItself ==
    \A k \in Docs : \A i \in MatchesOf(tournaments_col[k]) :
        tournaments_col[k].matches[i].teamA # tournaments_col[k].matches[i].teamB

\* the match of d with id id is in a round of its bracket's list of rounds
InRoundOfBracket(d, id) ==
    LET rounds == IF find_match(d, id).bracket = "upper"
                  THEN d.upper_rounds ELSE d.lower_rounds
    IN \E n \in 1..Len(rounds) : id \in Range(rounds[n])

\* C21 (as claimed): when the handler of an accepted result report ends, both
\* pools of the tournament are empty, the winner is a side of an upper match
\* and the loser a side of a lower match that the report appended, and every
\* match the report appended is in a round of its bracket.
C21_ReportFeedsAndDrainsPools ==
    [][\A p \in Handlers :
          (/\ \E r \in reports : r.handler = p /\ r.outcome = "running"
           /\ frame'[p].pc = "idle")
          => LET d == tournaments_col'[TIdx(frame[p].name)]
                 r == Running(p)
             IN /\ d.pending_upper = <<>>
                /\ d.pending_lower = <<>>
                /\ \E id \in r.made :
                      /\ find_match(d, id).bracket = "upper"
                      /\ r.winner \in {find_match(d, id).teamA, find_match(d, id).teamB}
                /\ \E id \in r.made :
                      /\ find_match(d, id).bracket = "lower"
                      /\ r.loser \in {find_match(d, id).teamA, find_match(d, id).teamB}
                /\ \A id \in r.made : InRoundOfBracket(d, id)]_vars

\* every bye of every tournament has no teamB and its teamA as winner, and
\* every other match has a teamB
ByesResolved ==
    \A k \in Docs : \A i \in MatchesOf(tournaments_col[k]) :
        LET m == tournaments_col[k].matches[i]
        IN IF m.bye
           THEN m.teamB = None /\ m.winner = m.teamA /\ m.teamA # None
           ELSE m.teamB # None

\* C22: in every state, also of interleaved handlers, a bye has no teamB and
\* has its teamA as winner from the step that appends it, and a match that is
\* no bye has a teamB; a result report naming a bye is answered "This match
\* already has a reported winner." and stores nothing.
C22_ByesStayResolved ==
    [][/\ ByesResolved'
       /\ \A p \in Handlers : \A name \in TourneyNames :
             (/\ Admit(p)
              /\ env'.report < env.report
              /\ find_match(get_tournament(name), Reported(p)').bye)
             => RejectedWith(p, "This match already has a reported winner.")]_vars

\* C22 witness: a report on a bye that a pairing pass appended to the lower
\* bracket has been rejected
C22_Witness ==
    \E p \in Handlers, k \in Docs :
        /\ reply[p].msg = "This match already has a reported winner."
        /\ find_match(tournaments_col[k], reply[p].match_id).bye
        /\ find_match(tournaments_col[k], reply[p].match_id).bracket = "lower"

\* C23 (as claimed): the lobby queue never holds more than QueueCap names
C23_QueueNeverOverTen == Len(queue) <= QueueCap

\* the number of matches of d without a winner
Unresolved(d) == Cardinality({i \in MatchesOf(d) : d.matches[i].winner = None})

\* no handler runs, the pools are empty, every match that a result report
\* appended is a bye, no team is eliminated and no tournament is finished
OnlyByesFollow ==
    \A k \in Docs :
        LET d == tournaments_col[k]
        IN /\ AllIdle => d.pending_upper = <<>> /\ d.pending_lower = <<>>
           /\ \A i \in MatchesOf(d) : d.matches[i].id \in MadeIds => d.matches[i].bye
           /\ Eliminated(d) = {}
           /\ d.status # "finished"

\* C24 (as claimed): with commands run one at a time, both pools are empty
\* whenever no command runs, every match appended after the start is a bye, the
\* number of matches without a winner never grows once the tournament runs, no
\* team is ever eliminated and no tournament is ever finished.
C24_SerialReportsOnlyMakeByes ==
    [][/\ OnlyByesFollow'
       /\ \A k \in Docs :
             tournaments_col[k].status = "running"
             => /\ Unresolved(tournaments_col'[k]) <= Unresolved(tournaments_col[k])
                /\ \A i \in MatchesOf(tournaments_col'[k]) \ MatchesOf(tournaments_col[k]) :
                      tournaments_col'[k].matches[i].bye]_vars
====
